---- MODULE Spec2Model ----
(***************************************************************************)
(* Model of etl.py, the fuel-prices pipeline: a date-rotated snapshot      *)
(* store, the locations catalog import, the per-location prices import and *)
(* the batched export of price events.                                     *)
(*                                                                         *)
(* Strings that the code takes apart are sequences of symbols: an          *)
(* identifier is a sequence of digits, a file path is a sequence of        *)
(* dot-free pieces and "." symbols.  Fields of a price record that the     *)
(* code only copies (brand, product, price, applied_at) are left out.      *)
(***************************************************************************)
EXTENDS Integers, Sequences, FiniteSets, TLC

VARIABLES
    today,       \* datetime.date.today(), as a day number
    files,       \* the data/ directory: path -> pickled value
    lastSaved,   \* history: <<name, day>> -> value of the latest save_data
    pc,          \* position of the process
    locations,   \* import_prices: the catalog, a mapping in insertion order
    idx,         \* import_prices: position of the loop over locations.values()
    records,     \* import_prices: accumulated FuelPriceRecords
    totals,      \* import_prices: the run totals
    all_prices,  \* export_prices: the record list being exported
    ndx,         \* batch: start of the next slice
    counter,     \* export_prices: events inserted
    errors,      \* export_prices: events not inserted
    trace,       \* history: network calls, sleeps and saves of this run
    posted,      \* history: the bodies POSTed in this run, in order
    obsSeen,     \* history: observations received by import_prices
    call         \* the last call of a function applied on its own

vars == <<today, files, lastSaved, pc, locations, idx, records, totals,
          all_prices, ndx, counter, errors, trace, posted, obsSeen, call>>

(***************************************************************************)
(* Bounds of the model                                                     *)
(***************************************************************************)
MaxDate == 2
MaxLocations == 2
MaxObs == 3
MaxBatches == 2
MaxIdLen == 4
MaxSeqLen == 4
MaxBatchLen == 3
MaxPathLen == 5

(***************************************************************************)
(* Program constants                                                       *)
(***************************************************************************)
NR_EVENTS_PER_POST == 1000
NR_EVENT_NAME == "FuelPriceSample"
StateIdWidth == 2
LocationIdWidth == 3

\* what read_data returns: None, or the unpickled value
None == [exists |-> FALSE, value |-> <<>>]

Some(v) == [exists |-> TRUE, value |-> v]

Names == {"locations", "prices"}

(***************************************************************************)
(* Sequences                                                               *)
(***************************************************************************)
SeqsUpTo(S, n) == UNION {[1..k -> S] : k \in 0..n}

Min(a, b) == IF a < b THEN a ELSE b

RECURSIVE Flatten(_)
Flatten(ss) == IF ss = <<>> THEN <<>> ELSE Head(ss) \o Flatten(Tail(ss))

(***************************************************************************)
(* str.split and str.join                                                  *)
(***************************************************************************)
RECURSIVE Split(_, _)
Split(s, sep) ==
    IF \A i \in 1..Len(s) : s[i] # sep
    THEN <<s>>
    ELSE LET k == CHOOSE i \in 1..Len(s) :
                      s[i] = sep /\ \A j \in 1..(i - 1) : s[j] # sep
         IN  <<SubSeq(s, 1, k - 1)>> \o Split(SubSeq(s, k + 1, Len(s)), sep)

RECURSIVE Join(_, _)
Join(components, sep) ==
    IF components = <<>> THEN <<>>
    ELSE IF Len(components) = 1 THEN Head(components)
    ELSE Head(components) \o <<sep>> \o Join(Tail(components), sep)

\* Insert as list.insert(i + 1, x): after the last component
Insert_after(list, i, x) ==
    SubSeq(list, 1, i + 1) \o <<x>> \o SubSeq(list, i + 2, Len(list))

\* list.insert(i, x) with 0 <= i <= len
Insert(list, i, x) == SubSeq(list, 1, i) \o <<x>> \o SubSeq(list, i + 1, Len(list))

(***************************************************************************)
(* Snapshot store                                                          *)
(***************************************************************************)
IsoDates == <<"2024-03-01", "2024-03-02", "2024-03-03", "2024-03-04", "2024-03-05">>

isoformat(day) == IsoDates[day]

\* get_rotated_file_path without the date
get_rotated_file_path_unrotated(file_path, day) == file_path

\* lines 45-48, day standing for datetime.date.today()
get_rotated_file_path(file_path, day) ==
    LET components == Split(file_path, ".")
    IN  Join(Insert(components, Len(components) - 1, <<isoformat(day)>>), ".")

\* f'data/{name}.pickle'
DataPath(name) == <<"data/", name, ".", "pickle">>

read_data(name) ==
    LET file_path == get_rotated_file_path(DataPath(name), today)
    IN  IF file_path \notin DOMAIN files THEN None ELSE Some(files[file_path])

\* save_data that empties data/ before it writes
save_data_wipe(data, name) ==
    files' = (get_rotated_file_path(DataPath(name), today) :> data)

\* the effect of save_data(data, name) on the store
save_data(data, name) ==
    LET file_path == get_rotated_file_path(DataPath(name), today)
    IN  files' = [p \in DOMAIN files \cup {file_path} |->
                     IF p = file_path THEN data ELSE files[p]]

\* Python truth value of what read_data returns: None, a list or a dict
Truthy(v) == v # None /\ v.value # <<>>

(***************************************************************************)
(* Location keys                                                           *)
(***************************************************************************)
\* PadLeft as f'{s:0<w}': the zeros go to the right
PadLeft_right(s, w) ==
    IF Len(s) >= w THEN s
    ELSE [i \in 1..w |-> IF i <= Len(s) THEN s[i] ELSE "0"]

\* f'{s:0>w}': left-pad with '0' up to width w, longer strings unchanged
PadLeft(s, w) ==
    IF Len(s) >= w THEN s
    ELSE [i \in 1..w |-> IF i <= w - Len(s) THEN "0" ELSE s[i - (w - Len(s))]]

get_location_key(r) ==
    LET location_id == r.MunicipioId
        state_id == r.EntidadFederativaId
    IN  <<PadLeft(state_id, StateIdWidth), PadLeft(location_id, LocationIdWidth)>>

(***************************************************************************)
(* batch                                                                   *)
(***************************************************************************)
\* BatchSlice with the slice end one short
BatchSlice_short(elements, n, length) ==
    SubSeq(elements, n + 1, Min(n + length, Len(elements)) - 1)

\* the slice batch() yields at offset n (0-based): elements[n:min(n + length, l)]
BatchSlice(elements, n, length) ==
    SubSeq(elements, n + 1, Min(n + length, Len(elements)))

\* BatchFrom over range(0, l - length + 1, length): full slices only
RECURSIVE BatchFrom_full(_, _, _)
BatchFrom_full(elements, n, length) ==
    IF n + length > Len(elements) THEN <<>>
    ELSE <<BatchSlice(elements, n, length)>> \o BatchFrom_full(elements, n + length, length)

\* range(0, l, length) from offset n on
RECURSIVE BatchFrom(_, _, _)
BatchFrom(elements, n, length) ==
    IF n >= Len(elements) THEN <<>>
    ELSE <<BatchSlice(elements, n, length)>> \o BatchFrom(elements, n + length, length)

\* list(batch(elements, length)), length > 0
batch(elements, length) == BatchFrom(elements, 0, length)

(***************************************************************************)
(* Mappings kept in insertion order: sequences of <<key, value>>           *)
(***************************************************************************)
HasKey(m, k) == \E i \in 1..Len(m) : m[i][1] = k

Get(m, k) == m[CHOOSE i \in 1..Len(m) : m[i][1] = k][2]

\* m[k] = v
Put(m, k, v) ==
    IF HasKey(m, k)
    THEN [i \in 1..Len(m) |-> IF m[i][1] = k THEN <<k, v>> ELSE m[i]]
    ELSE Append(m, <<k, v>>)

(***************************************************************************)
(* What the network can answer                                             *)
(***************************************************************************)
Digits == <<"1", "2", "3", "4", "5", "6", "7", "8", "9">>

\* the i-th record of the locations endpoint; ids arrive unpadded
RawLocation(i) ==
    [EntidadFederativaId |-> <<Digits[i]>>, MunicipioId |-> <<"1", Digits[i]>>,
     EntidadFederativa |-> [Nombre |-> "state-" \o ToString(i)],
     Nombre |-> "location-" \o ToString(i)]

\* the same location as RawLocation(i), ids already padded, renamed
RenamedLocation(i) ==
    [EntidadFederativaId |-> <<"0", Digits[i]>>, MunicipioId |-> <<"0", "1", Digits[i]>>,
     EntidadFederativa |-> [Nombre |-> "state-" \o ToString(i)],
     Nombre |-> "renamed-" \o ToString(i)]

RawCatalog(k) == [i \in 1..k |-> RawLocation(i)]

\* a GET either raises (transport error, malformed JSON) or returns a JSON array
Failure == [ok |-> FALSE, json |-> <<>>]

Answer(json) == [ok |-> TRUE, json |-> json]

LocationsResponses ==
    {Failure} \cup {Answer(RawCatalog(k)) : k \in 0..MaxLocations}
              \cup {Answer(<<RawLocation(1), RenamedLocation(1)>>)}

\* the k-th observation of a location
Observation(location, k) ==
    [EntidadFederativaId |-> location.state_id, MunicipioId |-> location.location_id,
     Nombre |-> "station-" \o ToString(k),
     Producto |-> IF k % 2 = 1 THEN "Gasolinas" ELSE "Diesel"]

\* an observation that names the second location of the catalog, ids unpadded
Foreign ==
    [EntidadFederativaId |-> RawLocation(2).EntidadFederativaId,
     MunicipioId |-> RawLocation(2).MunicipioId,
     Nombre |-> "station-x", Producto |-> "Diesel"]

\* what the prices endpoint can answer when asked for a location: an error,
\* no, one or MaxObs observations of it, or one of it and one of another
PricesResponses(location) ==
    {Failure}
    \cup {Answer([k \in 1..n |-> Observation(location, k)]) : n \in {0, 1, MaxObs}}
    \cup {Answer(<<Observation(location, 1), Foreign>>)}

StatusCodes == {200, 201, 500}

(***************************************************************************)
(* History                                                                 *)
(***************************************************************************)
\* n: the location's position (GET_PRICES) or the batch size (POST);
\* r: the number of records a GET returned, -1 when it raised
Event(op, n, r) == [op |-> op, n |-> n, r |-> r]

RespLen(resp) == IF resp = Failure THEN -1 ELSE Len(resp.json)

(***************************************************************************)
(* import_locations                                                        *)
(***************************************************************************)
RECURSIVE BuildLocations(_, _)
BuildLocations(json, acc) ==
    IF json = <<>> THEN acc
    ELSE LET r == Head(json)
             key == get_location_key(r)
             location == [location_id |-> key[2], state_id |-> key[1],
                          state |-> r.EntidadFederativa.Nombre,
                          location |-> r.Nombre]
         IN  BuildLocations(Tail(json), Put(acc, key, location))

NoTotals ==
    [locations_missing_data |-> 0, locations_processed |-> 0, stations_processed |-> 0]

\* lines 107-109: the locals of import_prices once the catalog is resolved
EnterPricesLoop(locs) ==
    /\ locations' = locs
    /\ records' = <<>>
    /\ totals' = NoTotals
    /\ idx' = 1
    /\ obsSeen' = <<>>
    /\ pc' = "prices_loop"

import_locations(resp) ==
    /\ pc = "import_locations"
    /\ IF resp = Failure
       THEN /\ trace' = Append(trace, Event("GET_LOCATIONS", 0, -1))
            /\ pc' = "failed"
            /\ UNCHANGED <<files, locations, records, totals, idx, obsSeen>>
       ELSE LET locs == BuildLocations(resp.json, <<>>)
            IN  /\ trace' = trace \o <<Event("GET_LOCATIONS", 0, Len(resp.json)),
                                       Event("SAVE_LOCATIONS", 0, 0)>>
                /\ save_data(locs, "locations")
                /\ EnterPricesLoop(locs)
    /\ UNCHANGED <<today, lastSaved, all_prices, ndx, counter, errors, posted, call>>

(***************************************************************************)
(* import_prices                                                           *)
(***************************************************************************)
\* line 106: read_data('locations') or import_locations()
import_prices_resolve ==
    /\ pc = "import_prices"
    /\ LET cached == read_data("locations")
       IN  IF Truthy(cached)
           THEN EnterPricesLoop(cached.value)
           ELSE /\ pc' = "import_locations"
                /\ UNCHANGED <<locations, records, totals, idx, obsSeen>>
    /\ UNCHANGED <<today, files, lastSaved, all_prices, ndx, counter, errors,
                   trace, posted, call>>

\* lines 123-130
FuelPriceRecord(locs, r) ==
    [location |-> Get(locs, get_location_key(r)),
     station |-> r.Nombre,
     type |-> IF r.Producto = "Gasolinas" THEN "gasoline" ELSE "diesel"]

\* ProcessRecords with locations.get(key) in place of locations[key]: an
\* observation of an unknown location is dropped without an error
RECURSIVE ProcessRecords_skip(_, _, _)
ProcessRecords_skip(json, locs, acc) ==
    IF json = <<>> THEN acc
    ELSE IF ~HasKey(locs, get_location_key(Head(json)))
    THEN ProcessRecords_skip(Tail(json), locs, acc)
    ELSE ProcessRecords_skip(Tail(json), locs,
            [acc EXCEPT !.records = Append(@, FuelPriceRecord(locs, Head(json))),
                        !.stations = @ + 1])

\* ProcessRecords with line 131 after the inner loop: one count per response
RECURSIVE ProcessRecords_once(_, _, _)
ProcessRecords_once(json, locs, acc) ==
    IF json = <<>> THEN acc
    ELSE IF ~HasKey(locs, get_location_key(Head(json)))
    THEN [acc EXCEPT !.raised = TRUE]
    ELSE ProcessRecords_once(Tail(json), locs,
            [acc EXCEPT !.records = Append(@, FuelPriceRecord(locs, Head(json))),
                        !.stations = IF Tail(json) = <<>> THEN @ + 1 ELSE @])

\* ProcessRecords with records.insert(0, ...) in place of records.append(...)
RECURSIVE ProcessRecords_prepend(_, _, _)
ProcessRecords_prepend(json, locs, acc) ==
    IF json = <<>> THEN acc
    ELSE IF ~HasKey(locs, get_location_key(Head(json)))
    THEN [acc EXCEPT !.raised = TRUE]
    ELSE ProcessRecords_prepend(Tail(json), locs,
            [acc EXCEPT !.records = <<FuelPriceRecord(locs, Head(json))>> \o @,
                        !.stations = @ + 1])

\* lines 121-133: the loop over json_records, stopped by a KeyError
RECURSIVE ProcessRecords(_, _, _)
ProcessRecords(json, locs, acc) ==
    IF json = <<>> THEN acc
    ELSE IF ~HasKey(locs, get_location_key(Head(json)))
    THEN [acc EXCEPT !.raised = TRUE]
    ELSE ProcessRecords(Tail(json), locs,
            [acc EXCEPT !.records = Append(@, FuelPriceRecord(locs, Head(json))),
                        !.stations = @ + 1])

\* MissingData without the continue: line 134 counts the location too
MissingData_processed(t) ==
    [t EXCEPT !.locations_missing_data = @ + 1, !.locations_processed = @ + 1]

\* lines 117-120: the totals after an empty response
MissingData(t) == [t EXCEPT !.locations_missing_data = @ + 1]

\* line 135 is reached only when the response held records
SleepAfter(json_records) == IF json_records = <<>> THEN <<>> ELSE <<Event("SLEEP", 0, 0)>>

\* lines 110-135: one turn of the loop over locations.values()
import_prices_location(resp) ==
    /\ pc = "prices_loop"
    /\ idx <= Len(locations)
    /\ LET get == Event("GET_PRICES", idx, RespLen(resp))
       IN  IF resp = Failure
           THEN /\ trace' = Append(trace, get)
                /\ pc' = "failed"
                /\ UNCHANGED <<records, totals, idx, obsSeen>>
           ELSE IF resp.json = <<>>
           THEN /\ trace' = Append(trace, get) \o SleepAfter(resp.json)
                /\ totals' = MissingData(totals)
                /\ idx' = idx + 1
                /\ UNCHANGED <<records, obsSeen, pc>>
           ELSE LET out == ProcessRecords(resp.json, locations,
                               [records |-> records,
                                stations |-> totals.stations_processed,
                                raised |-> FALSE])
                IN  /\ records' = out.records
                    /\ obsSeen' = obsSeen \o resp.json
                    /\ IF out.raised
                       THEN /\ trace' = Append(trace, get)
                            /\ totals' = [totals EXCEPT !.stations_processed = out.stations]
                            /\ pc' = "failed"
                            /\ UNCHANGED idx
                       ELSE /\ trace' = Append(trace, get) \o SleepAfter(resp.json)
                            /\ totals' = [totals EXCEPT
                                             !.stations_processed = out.stations,
                                             !.locations_processed = @ + 1]
                            /\ idx' = idx + 1
                            /\ UNCHANGED pc
    /\ UNCHANGED <<today, files, lastSaved, locations, all_prices, ndx,
                   counter, errors, posted, call>>

\* line 110: the next location of locations.values(), and what its GET returns
import_prices_loop ==
    /\ pc = "prices_loop"
    /\ idx <= Len(locations)
    /\ LET location == locations[idx][2]
       IN  \E resp \in PricesResponses(location) : import_prices_location(resp)

\* lines 158-159 and the start of batch()
EnterExportLoop(prices) ==
    /\ all_prices' = prices
    /\ ndx' = 0
    /\ counter' = 0
    /\ errors' = 0
    /\ pc' = "export_loop"

\* import_prices_save in a finally clause: the records are saved after an
\* error too
import_prices_save_finally ==
    /\ \/ pc = "prices_loop" /\ idx > Len(locations)
       \/ pc = "failed" /\ \E i \in 1..Len(trace) : trace[i].op = "GET_PRICES"
    /\ save_data(records, "prices")
    /\ trace' = Append(trace, Event("SAVE_PRICES", 0, 0))
    /\ EnterExportLoop(records)
    /\ UNCHANGED <<today, lastSaved, locations, idx, records, totals, posted, obsSeen,
                   call>>

\* lines 136-139, returning into export_prices
import_prices_save ==
    /\ pc = "prices_loop"
    /\ idx > Len(locations)
    /\ save_data(records, "prices")
    /\ trace' = Append(trace, Event("SAVE_PRICES", 0, 0))
    /\ EnterExportLoop(records)
    /\ UNCHANGED <<today, lastSaved, locations, idx, records, totals, posted, obsSeen,
                   call>>

(***************************************************************************)
(* export_prices                                                           *)
(***************************************************************************)
\* line 156: read_data('prices') or import_prices()
export_prices_resolve ==
    /\ pc = "export_prices"
    /\ LET cached == read_data("prices")
       IN  IF Truthy(cached)
           THEN EnterExportLoop(cached.value)
           ELSE /\ pc' = "import_prices"
                /\ UNCHANGED <<all_prices, ndx, counter, errors>>
    /\ UNCHANGED <<today, files, lastSaved, locations, idx, records, totals,
                   trace, posted, obsSeen, call>>

\* lines 164-173
ToEvent(price) ==
    [eventType |-> NR_EVENT_NAME,
     location |-> price.location.location,
     state |-> price.location.state,
     station |-> price.station,
     type |-> price.type]

ToEvents(prices) == [i \in 1..Len(prices) |-> ToEvent(prices[i])]

\* Success as response.ok: any 2xx status
Success_2xx(status_code) == status_code >= 200 /\ status_code < 300

\* line 149
Success(status_code) == status_code = 200

\* lines 160-180 with post_events_to_insights: one turn of the loop over batch()
export_prices_batch(status_code) ==
    /\ pc = "export_loop"
    /\ ndx < Len(all_prices)
    /\ LET prices == BatchSlice(all_prices, ndx, NR_EVENTS_PER_POST)
           events == ToEvents(prices)
           events_in_this_batch == Len(events)
       IN  /\ posted' = Append(posted, events)
           /\ trace' = trace \o <<Event("POST", events_in_this_batch, status_code),
                                  Event("SLEEP", 0, 0)>>
           /\ IF Success(status_code)
              THEN counter' = counter + events_in_this_batch /\ UNCHANGED errors
              ELSE errors' = errors + events_in_this_batch /\ UNCHANGED counter
    /\ ndx' = ndx + NR_EVENTS_PER_POST
    /\ UNCHANGED <<today, files, lastSaved, pc, locations, idx, records, totals,
                   all_prices, obsSeen, call>>

\* export_prices_done that refreshes a cached list after exporting it
export_prices_done_refresh ==
    /\ pc = "export_loop"
    /\ ndx >= Len(all_prices)
    /\ pc' = IF posted # <<>> /\ \A i \in 1..Len(trace) : trace[i].op # "SAVE_PRICES"
             THEN "import_prices" ELSE "done"
    /\ UNCHANGED <<today, files, lastSaved, locations, idx, records, totals,
                   all_prices, ndx, counter, errors, trace, posted, obsSeen, call>>

\* lines 181-183
export_prices_done ==
    /\ pc = "export_loop"
    /\ ndx >= Len(all_prices)
    /\ pc' = "done"
    /\ UNCHANGED <<today, files, lastSaved, locations, idx, records, totals,
                   all_prices, ndx, counter, errors, trace, posted, obsSeen, call>>

(***************************************************************************)
(* The process and the calendar                                            *)
(***************************************************************************)
Idle ==
    /\ locations = <<>>
    /\ idx = 1
    /\ records = <<>>
    /\ totals = NoTotals
    /\ all_prices = <<>>
    /\ ndx = 0
    /\ counter = 0
    /\ errors = 0
    /\ trace = <<>>
    /\ posted = <<>>
    /\ obsSeen = <<>>

\* midnight passes
NextDay ==
    /\ today < MaxDate
    /\ today' = today + 1
    /\ UNCHANGED <<files, lastSaved, pc, locations, idx, records, totals,
                   all_prices, ndx, counter, errors, trace, posted, obsSeen, call>>

NoCall == [op |-> "none"]

\* a locations snapshot as import_locations saves it
StoredLocations(k) == BuildLocations(RawCatalog(k), <<>>)

\* a prices snapshot of n records as import_prices saves it
StoredPrices(n) ==
    [i \in 1..n |->
        [location |-> StoredLocations(1)[1][2],
         station |-> "station-" \o ToString(i),
         type |-> IF i % 2 = 1 THEN "gasoline" ELSE "diesel"]]

\* list lengths around the batch size: full batches, one record more, and halves
LongSizes ==
    {k * NR_EVENTS_PER_POST + d : k \in 1..MaxBatches, d \in {0, 1}}
    \cup {NR_EVENTS_PER_POST - 1, NR_EVENTS_PER_POST + NR_EVENTS_PER_POST \div 2}

NoFiles == [p \in {} |-> <<>>]

\* the files one name can have in data/ when the script starts on a day: at
\* most one of that day and one of the day before, left by earlier runs
StoredFiles(name, day, olds, news) ==
    LET old == {NoFiles} \cup
               IF day = 1 THEN {}
               ELSE {get_rotated_file_path(DataPath(name), day - 1) :> v : v \in olds}
        new == {NoFiles} \cup
               {get_rotated_file_path(DataPath(name), day) :> v : v \in news}
    IN  {o @@ n : o \in old, n \in new}

NeverSaved == [k \in Names \X (1..MaxDate) |-> None]

\* the script starts over what earlier runs left in data/: short snapshots of
\* today and of the day before, or a long prices snapshot of today
Init ==
    /\ pc = "export_prices"
    /\ Idle
    /\ call = NoCall
    /\ lastSaved = NeverSaved
    /\ today \in 1..MaxDate
    /\ \/ \E ls \in StoredFiles("locations", today, {StoredLocations(1)},
                                {StoredLocations(k) : k \in 0..MaxLocations}),
             ps \in StoredFiles("prices", today, {StoredPrices(1)},
                                {StoredPrices(n) : n \in 0..1}) :
               files = ls @@ ps
       \/ \E n \in LongSizes :
               files = (get_rotated_file_path(DataPath("prices"), today)
                            :> StoredPrices(n))

Next ==
    \/ export_prices_resolve
    \/ import_prices_resolve
    \/ \E resp \in LocationsResponses : import_locations(resp)
    \/ import_prices_loop
    \/ import_prices_save
    \/ \E status_code \in StatusCodes : export_prices_batch(status_code)
    \/ export_prices_done
    \/ NextDay

Spec == Init /\ [][Next]_vars

(***************************************************************************)
(* get_location_key applied on its own                                     *)
(***************************************************************************)
IdSymbols == {"0", "1", "2"}

Ids == SeqsUpTo(IdSymbols, MaxIdLen)

PipelineUnused ==
    UNCHANGED <<pc, locations, idx, records, totals, all_prices, ndx, counter,
                errors, trace, posted, obsSeen>>

InitKey ==
    /\ pc = "export_prices"
    /\ Idle
    /\ today = 1
    /\ files = NoFiles
    /\ lastSaved = NeverSaved
    /\ \E state_id \in Ids, location_id \in Ids :
          call = [op |-> "argument",
                  r |-> [EntidadFederativaId |-> state_id, MunicipioId |-> location_id]]

\* the key of r, and the key of the record made from that key
KeyCall ==
    /\ call.op = "argument"
    /\ LET key == get_location_key(call.r)
       IN  call' = [op |-> "get_location_key", r |-> call.r, key |-> key,
                    again |-> get_location_key([EntidadFederativaId |-> key[1],
                                                MunicipioId |-> key[2]])]
    /\ PipelineUnused
    /\ UNCHANGED <<today, files, lastSaved>>

SpecKey == InitKey /\ [][KeyCall]_vars

(***************************************************************************)
(* batch applied on its own                                                *)
(***************************************************************************)
Elements == {1, 2, 3}

InitBatch ==
    /\ pc = "export_prices"
    /\ Idle
    /\ today = 1
    /\ files = NoFiles
    /\ lastSaved = NeverSaved
    /\ \E elements \in SeqsUpTo(Elements, MaxSeqLen), length \in 1..MaxBatchLen :
          call = [op |-> "argument", elements |-> elements, length |-> length]

BatchCall ==
    /\ call.op = "argument"
    /\ call' = [op |-> "batch", elements |-> call.elements, length |-> call.length,
                chunks |-> batch(call.elements, call.length)]
    /\ PipelineUnused
    /\ UNCHANGED <<today, files, lastSaved>>

SpecBatch == InitBatch /\ [][BatchCall]_vars

(***************************************************************************)
(* The snapshot store on its own: saves, reads and midnights in any order  *)
(***************************************************************************)
Values == {<<>>, <<"a">>, <<"b">>}

InitStore ==
    /\ pc = "export_prices"
    /\ Idle
    /\ today = 1
    /\ files = NoFiles
    /\ lastSaved = NeverSaved
    /\ call = NoCall

StoreSave ==
    /\ \E name \in Names, data \in Values :
          /\ save_data(data, name)
          /\ lastSaved' = [lastSaved EXCEPT ![<<name, today>>] = Some(data)]
          /\ call' = [op |-> "save_data", name |-> name, day |-> today,
                      result |-> None]
    /\ PipelineUnused
    /\ UNCHANGED today

StoreRead ==
    /\ \E name \in Names :
          call' = [op |-> "read_data", name |-> name, day |-> today,
                   result |-> read_data(name)]
    /\ PipelineUnused
    /\ UNCHANGED <<today, files, lastSaved>>

NextStore == StoreSave \/ StoreRead \/ NextDay

SpecStore == InitStore /\ [][NextStore]_vars

(***************************************************************************)
(* Properties                                                              *)
(***************************************************************************)
Exists(name) == get_rotated_file_path(DataPath(name), today) \in DOMAIN files

Ops(op) == {i \in 1..Len(trace) : trace[i].op = op}

Imported == Ops("SAVE_PRICES") # {}

Ceil(n, d) == (n + d - 1) \div d

Max(a, b) == IF a > b THEN a ELSE b

\* the sizes of the POSTs of log that returned 200 (ok) or another status
RECURSIVE SumPosts(_, _)
SumPosts(log, ok) ==
    IF log = <<>> THEN 0
    ELSE (IF Head(log).op = "POST" /\ (Head(log).r = 200) = ok THEN Head(log).n ELSE 0)
         + SumPosts(Tail(log), ok)

RECURSIVE SumLen(_)
SumLen(ss) == IF ss = <<>> THEN 0 ELSE Len(Head(ss)) + SumLen(Tail(ss))

\* C1: export_prices goes on to import_prices exactly when today has no
\* "prices" snapshot, and import_prices goes on to import_locations exactly
\* when today has no "locations" snapshot; an existing snapshot, whatever it
\* holds, is used as it is.
C1_CachedOrCompute ==
    [][/\ (pc = "export_prices" /\ pc' # pc) =>
              /\ pc' = "import_prices" <=> ~Exists("prices")
              /\ Exists("prices") => all_prices' = read_data("prices").value
       /\ (pc = "import_prices" /\ pc' # pc) =>
              /\ pc' = "import_locations" <=> ~Exists("locations")
              /\ Exists("locations") => locations' = read_data("locations").value]_vars

\* C2: a batch's size goes to the inserted count iff its POST returned
\* exactly 200 and to the not-inserted count otherwise; the two counts add up
\* to the records posted so far, and to all n records when the export ends.
C2_EveryRecordCounted ==
    /\ counter = SumPosts(trace, TRUE)
    /\ errors = SumPosts(trace, FALSE)
    /\ counter + errors = SumLen(posted)
    /\ pc = "done" => counter + errors = Len(all_prices)

C2_Witness ==
    /\ pc = "done"
    /\ Len(all_prices) = 1500
    /\ counter = 1000
    /\ errors = 500
    /\ trace[Len(trace) - 1].r # 200

\* C3: whatever the status codes, the export of n records ends after exactly
\* ceil(n / 1000) POSTs, and the i-th POST carries the events of the i-th
\* slice of 1000 records of the list, so no batch is posted twice or skipped.
C3_OnePostPerBatch ==
    /\ \A i \in 1..Len(posted) :
          posted[i] = ToEvents(SubSeq(all_prices, (i - 1) * NR_EVENTS_PER_POST + 1,
                                      Min(i * NR_EVENTS_PER_POST, Len(all_prices))))
    /\ Len(posted) = Cardinality(Ops("POST"))
    /\ Len(posted) <= Ceil(Len(all_prices), NR_EVENTS_PER_POST)
    /\ pc = "done" => Len(posted) = Ceil(Len(all_prices), NR_EVENTS_PER_POST)

C3_Witness ==
    /\ pc = "done"
    /\ Len(all_prices) = 2 * NR_EVENTS_PER_POST + 1
    /\ Len(posted) = 3
    /\ counter = 1
    /\ errors = 2 * NR_EVENTS_PER_POST

\* C4: once import_prices has completed, the records returned are as many as
\* stations_processed and as the observations received, and
\* locations_processed + locations_missing_data is the number of catalog
\* locations.
C4_ImportTotals ==
    Imported =>
        /\ all_prices = records
        /\ Len(records) = totals.stations_processed
        /\ Len(records) = Len(obsSeen)
        /\ totals.locations_processed + totals.locations_missing_data = Len(locations)
        /\ totals.locations_missing_data =
              Cardinality({i \in Ops("GET_PRICES") : trace[i].r = 0})

C4_Witness ==
    /\ Imported
    /\ Len(locations) = 1
    /\ Len(obsSeen) = 3
    /\ Len(records) = 3
    /\ totals = [locations_missing_data |-> 0, locations_processed |-> 1,
                 stations_processed |-> 3]

\* the step is a prices GET that returned an empty array
EmptyResponseStep ==
    /\ pc = "prices_loop"
    /\ Len(trace') > Len(trace)
    /\ trace'[Len(trace) + 1] = Event("GET_PRICES", idx, 0)

\* C5: a location whose response is empty adds exactly 1 to
\* locations_missing_data, leaves locations_processed, stations_processed and
\* the records as they are, and the loop goes on to the next location.
C5_EmptyResponse ==
    [][EmptyResponseStep =>
          /\ totals'.locations_missing_data = totals.locations_missing_data + 1
          /\ totals'.locations_processed = totals.locations_processed
          /\ totals'.stations_processed = totals.stations_processed
          /\ records' = records
          /\ idx' = idx + 1
          /\ pc' = "prices_loop"]_vars

C5_Witness ==
    /\ pc = "prices_loop"
    /\ idx = 2
    /\ Len(locations) = 2
    /\ trace[Len(trace)] = Event("GET_PRICES", 1, 0)
    /\ totals.locations_missing_data = 1

\* C6: between any two prices GETs there is a sleep, whether the earlier one
\* returned observations or an empty array.
C6_SleepBetweenGets ==
    \A i \in Ops("GET_PRICES"), j \in Ops("GET_PRICES") :
        i < j => \E k \in Ops("SLEEP") : i < k /\ k < j

\* the catalog entry whose ids are those of r, zero-padded to widths 2 and 3
Owner(r) ==
    {i \in 1..Len(locations) :
        /\ locations[i][2].state_id = PadLeft(r.EntidadFederativaId, StateIdWidth)
        /\ locations[i][2].location_id = PadLeft(r.MunicipioId, LocationIdWidth)}

\* C7: every record's location is the catalog entry under the key of the
\* record's own observation, and an observation whose key the catalog lacks
\* makes the import fail: no record is made of it and nothing is saved.
C7_LocationByOwnKey ==
    /\ pc # "failed" =>
          /\ Len(records) = Len(obsSeen)
          /\ \A i \in 1..Len(records) :
                /\ Owner(obsSeen[i]) # {}
                /\ \A o \in Owner(obsSeen[i]) : records[i].location = locations[o][2]
                /\ records[i].station = obsSeen[i].Nombre
    /\ (\E i \in 1..Len(obsSeen) : Owner(obsSeen[i]) = {}) =>
          /\ pc = "failed"
          /\ ~Imported
          /\ \A i \in 1..Len(records) : Owner(obsSeen[i]) # {}

\* a record of another location than the one asked for
C7_Witness ==
    /\ pc = "prices_loop"
    /\ idx = 2
    /\ Len(locations) = 2
    /\ Len(records) = 2
    /\ records[2].location = locations[2][2]
    /\ records[2].location # records[1].location

\* the import failed on an observation of a location the catalog lacks
C7_WitnessFailed ==
    /\ pc = "failed"
    /\ \E i \in 1..Len(obsSeen) : Owner(obsSeen[i]) = {}

\* the chunks batch returned for the drawn sequence and length
Chunks == call.chunks

\* C8: for every sequence and every positive length, the chunks of batch
\* concatenate to the sequence, none is empty or longer than length, and all
\* but the last have exactly length elements.
C8_BatchPartitions ==
    call.op = "batch" =>
        /\ Flatten(Chunks) = call.elements
        /\ \A i \in 1..Len(Chunks) :
              /\ Len(Chunks[i]) >= 1
              /\ Len(Chunks[i]) <= call.length
              /\ i < Len(Chunks) => Len(Chunks[i]) = call.length

\* batch(<<1, 2, 3, 1>>, 3): a full chunk and a shorter last one
C8_Witness ==
    /\ call.op = "batch"
    /\ call.elements = <<1, 2, 3, 1>>
    /\ call.length = 3
    /\ Chunks = <<<<1, 2, 3>>, <<1>>>>

Zeros(n) == [i \in 1..n |-> "0"]

\* s is id with zeros in front, w symbols wide, or id itself when id is wider
PaddedTo(s, id, w) ==
    /\ Len(s) = Max(Len(id), w)
    /\ s = Zeros(Len(s) - Len(id)) \o id

\* C9 as stated: for every identifier string the state component is exactly
\* 2 wide and the location component exactly 3 wide; the key of a key is the
\* key.
C9_WidthExact ==
    call.op = "get_location_key" =>
        /\ Len(call.key[1]) = StateIdWidth
        /\ Len(call.key[2]) = LocationIdWidth
        /\ call.again = call.key

\* C9 amended: the components are the identifiers left-padded with '0' to
\* widths 2 and 3, exactly that wide when the identifier is no longer than
\* the width and the identifier unchanged when it is longer; an identifier
\* and the same identifier with one more leading zero, within the width, have
\* the same component; the key of a key is the key.
C9_PadsToWidth ==
    call.op = "get_location_key" =>
        /\ PaddedTo(call.key[1], call.r.EntidadFederativaId, StateIdWidth)
        /\ PaddedTo(call.key[2], call.r.MunicipioId, LocationIdWidth)
        /\ Len(call.r.EntidadFederativaId) < StateIdWidth =>
              get_location_key([call.r EXCEPT !.EntidadFederativaId = <<"0">> \o @])
                  = call.key
        /\ Len(call.r.MunicipioId) < LocationIdWidth =>
              get_location_key([call.r EXCEPT !.MunicipioId = <<"0">> \o @])
                  = call.key
        /\ call.again = call.key

\* key("2", "12") = ("02", "012")
C9_Witness ==
    /\ call.op = "get_location_key"
    /\ call.r = [EntidadFederativaId |-> <<"2">>, MunicipioId |-> <<"1", "2">>]
    /\ call.key = <<<<"0", "2">>, <<"0", "1", "2">>>>
    /\ call.again = call.key

\* C10: read_data(name) returns the value most recently saved under name on
\* the day of the read, or None when nothing was saved under name that day,
\* whatever was saved on earlier days.
C10_ReadsTodayOnly ==
    call.op = "read_data" => call.result = lastSaved[<<call.name, call.day>>]

\* a read on the second day that finds nothing, the name saved the day before
C10_Witness ==
    /\ call.op = "read_data"
    /\ call.day = 2
    /\ call.result = None
    /\ lastSaved[<<call.name, 1>>] # None

(***************************************************************************)
(* get_rotated_file_path applied on its own                                *)
(***************************************************************************)
PathSymbols == {"foo", "bar/baz", "pickle", "."}

InitPath ==
    /\ pc = "export_prices"
    /\ Idle
    /\ files = NoFiles
    /\ lastSaved = NeverSaved
    /\ today \in 1..MaxDate
    /\ \E file_path \in SeqsUpTo(PathSymbols, MaxPathLen) :
          call = [op |-> "argument", file_path |-> file_path]

PathCall ==
    /\ call.op = "argument"
    /\ call' = [op |-> "get_rotated_file_path", file_path |-> call.file_path,
                day |-> today,
                result |-> get_rotated_file_path(call.file_path, today)]
    /\ PipelineUnused
    /\ UNCHANGED <<today, files, lastSaved>>

SpecPath == InitPath /\ [][PathCall]_vars

\* the snapshot data/ holds for a name and a day
Snapshot(name, day) ==
    LET p == <<"data/", name, ".", IsoDates[day], ".", "pickle">>
    IN  IF p \in DOMAIN files THEN Some(files[p]) ELSE None

\* C11: a save changes no snapshot but the one of its name and of the day it
\* is made: those of earlier days and of the other name stay as they were,
\* and no other file appears or disappears.
C11_SaveWritesOnlyToday ==
    [][call'.op = "save_data" =>
          /\ \A name \in Names, day \in 1..MaxDate :
                <<name, day>> # <<call'.name, call'.day>> =>
                    Snapshot(name, day)' = Snapshot(name, day)
          /\ Cardinality(DOMAIN files') <= Cardinality(DOMAIN files) + 1
          /\ DOMAIN files \subseteq DOMAIN files']_vars

\* a save on the second day under a name saved the day before with another value
C11_Witness ==
    /\ call.op = "save_data"
    /\ call.day = 2
    /\ Snapshot(call.name, 1) # None
    /\ Snapshot(call.name, 1) = lastSaved[<<call.name, 1>>]
    /\ Snapshot(call.name, 2) # Snapshot(call.name, 1)

\* the place of the last "." of s, 0 when it has none
LastDot(s) ==
    IF \A i \in 1..Len(s) : s[i] # "." THEN 0
    ELSE CHOOSE i \in 1..Len(s) : s[i] = "." /\ \A j \in (i + 1)..Len(s) : s[j] # "."

\* C13: get_rotated_file_path(path) is path with today's ISO date and a "."
\* put in front of its last dot-separated component, everything else kept as
\* it is and in order.
C13_DateBeforeLastComponent ==
    call.op = "get_rotated_file_path" =>
        LET path == call.file_path
            k == LastDot(path)
        IN  call.result = SubSeq(path, 1, k) \o <<IsoDates[call.day], ".">>
                          \o SubSeq(path, k + 1, Len(path))

\* rotate("foo.bar/baz.pickle") = "foo.bar/baz.<today>.pickle"
C13_Witness ==
    /\ call.op = "get_rotated_file_path"
    /\ call.file_path = <<"foo", ".", "bar/baz", ".", "pickle">>
    /\ call.day = 2
    /\ call.result = <<"foo", ".", "bar/baz", ".", "2024-03-02", ".", "pickle">>

\* the prices GETs of the run, in the order they were issued
PricesGets ==
    LET IsGet(e) == e.op = "GET_PRICES"
    IN  SelectSeq(trace, IsGet)

\* the number of observations the first k prices GETs returned
RECURSIVE Received(_, _)
Received(gets, k) == IF k = 0 THEN 0 ELSE Received(gets, k - 1) + gets[k].r

\* C12: the prices GETs go through the catalog in its order, one per
\* location, and the records returned and saved are the observations of the
\* first location in response order, then those of the second, and so on.
C12_CatalogThenResponseOrder ==
    /\ Len(PricesGets) <= Len(locations)
    /\ \A k \in 1..Len(PricesGets) : PricesGets[k].n = k
    /\ Imported =>
          /\ Len(PricesGets) = Len(locations)
          /\ all_prices = records
          /\ \E day \in 1..today : Snapshot("prices", day) = Some(records)
          /\ Len(records) = Received(PricesGets, Len(PricesGets))
          /\ \A i \in 1..Len(records) :
                /\ records[i].station = obsSeen[i].Nombre
                /\ records[i].type =
                      IF obsSeen[i].Producto = "Gasolinas" THEN "gasoline" ELSE "diesel"
          /\ \A k \in 1..Len(PricesGets) :
                PricesGets[k].r > 0 =>
                    records[Received(PricesGets, k - 1) + 1].location = locations[k][2]

\* two locations, the first with three observations and the second with one
C12_Witness ==
    /\ Imported
    /\ Len(locations) = 2
    /\ Len(records) = 4
    /\ records[1].location = locations[1][2]
    /\ records[1].station # records[2].station
    /\ records[4].location = locations[2][2]

\* C14: a run that failed has saved no "prices" snapshot and issued no POST,
\* the step that fails writes no file, and after it the run does nothing
\* more: no retry of the GET, no save; when it is the locations GET that
\* failed, no "locations" snapshot was saved either.
C14_FailureSavesNothing ==
    /\ [](pc = "failed" =>
            /\ Ops("SAVE_PRICES") = {}
            /\ Ops("POST") = {}
            /\ posted = <<>>
            /\ ~Truthy(read_data("prices"))
            /\ (Ops("GET_LOCATIONS") # {} /\ Ops("GET_PRICES") = {}) =>
                  /\ Ops("SAVE_LOCATIONS") = {}
                  /\ ~Truthy(read_data("locations")))
    /\ [][/\ pc' = "failed" => files' = files
          /\ pc = "failed" =>
                /\ pc' = "failed"
                /\ trace' = trace
                /\ posted' = posted]_vars

\* the import failed at the second location, records of the first in hand
C14_Witness ==
    /\ pc = "failed"
    /\ idx = 2
    /\ records # <<>>
    /\ Ops("SAVE_LOCATIONS") # {}
    /\ trace[Len(trace)].op = "GET_PRICES"
    /\ trace[Len(trace)].r = -1

\* the stage an entry of the history belongs to, 0 for a sleep
Stage(e) ==
    CASE e.op = "GET_LOCATIONS" -> 1
      [] e.op = "SAVE_LOCATIONS" -> 2
      [] e.op = "GET_PRICES" -> 3
      [] e.op = "SAVE_PRICES" -> 4
      [] e.op = "POST" -> 5
      [] OTHER -> 0

\* C15: in a run the locations GET and save come before every prices GET,
\* every prices GET and the prices save come before the first POST, and no
\* GET comes after a POST.
C15_StagesInOrder ==
    \A i \in 1..Len(trace), j \in 1..Len(trace) :
        (i < j /\ Stage(trace[i]) > 0 /\ Stage(trace[j]) > 0) =>
            /\ Stage(trace[i]) <= Stage(trace[j])
            /\ Stage(trace[i]) = Stage(trace[j]) => Stage(trace[i]) \in {3, 5}

\* a run that went through every stage
C15_Witness ==
    /\ pc = "done"
    /\ \A op \in {"GET_LOCATIONS", "SAVE_LOCATIONS", "GET_PRICES", "SAVE_PRICES", "POST"} :
          Ops(op) # {}

====
